---- MODULE Spec2Model ----
(***************************************************************************)
(* fetch_ticket.py: fetch one Azure DevOps work item and print it as JSON. *)
(*                                                                         *)
(* Text is modelled as a sequence of one-character strings, so that the    *)
(* regular expressions, the percent-decoding and the entity decoding of    *)
(* the script are computed character by character, as the script does.     *)
(***************************************************************************)
EXTENDS Integers, Sequences, FiniteSets, TLC

VARIABLES
    pc,           \* position of the run inside main / fetch_work_item
    argv,         \* sys.argv[1:]: <<>> or <<url>>
    environ,      \* os.environ restricted to ADO_PAT
    stdout,       \* documents printed to standard output, in order
    stderr,       \* lines printed to standard error, in order
    exit_status,  \* NoExit until the process ends, then 0 or 1
    pat_reads,    \* number of os.environ.get('ADO_PAT') calls made
    parse_calls,  \* number of parse_url calls made
    requests,     \* number of urllib.request.urlopen calls made
    components,   \* result of parse_url in main
    data,         \* the decoded response body in fetch_work_item
    ticket,       \* the record returned by fetch_work_item
    req,          \* the urllib.request.Request built by fetch_work_item
    exc,          \* the exception in flight, or NoExc
    h_pc,         \* position of a direct call of a pure function
    h_in,         \* its input
    h_out1,       \* its result
    h_out2        \* the result of applying it to its own result

vars == <<pc, argv, environ, stdout, stderr, exit_status, pat_reads, parse_calls,
          requests, components, data, ticket, req, exc, h_pc, h_in, h_out1, h_out2>>

mainVars == <<pc, argv, environ, stdout, stderr, exit_status, pat_reads, parse_calls,
              requests, components, data, ticket, req, exc>>

harnessVars == <<h_pc, h_in, h_out1, h_out2>>

----------------------------------------------------------------------------
(* Text helpers *)

Whitespace == {" ", "\t", "\n"}

Digits == {"0", "1", "2", "3", "4", "5", "6", "7", "8", "9"}

DigitVal(c) ==
    CASE c = "0" -> 0 [] c = "1" -> 1 [] c = "2" -> 2 [] c = "3" -> 3 [] c = "4" -> 4
      [] c = "5" -> 5 [] c = "6" -> 6 [] c = "7" -> 7 [] c = "8" -> 8 [] c = "9" -> 9

HexDigits == Digits \cup {"a", "b", "c", "d", "e", "f", "A", "B", "C", "D", "E", "F"}

HexVal(c) ==
    CASE c \in Digits -> DigitVal(c)
      [] c \in {"a", "A"} -> 10 [] c \in {"b", "B"} -> 11 [] c \in {"c", "C"} -> 12
      [] c \in {"d", "D"} -> 13 [] c \in {"e", "E"} -> 14 [] c \in {"f", "F"} -> 15

\* s[i..], the rest of s from position i on
From(s, i) == SubSeq(s, i, Len(s))

\* A character class of a regular expression: [set] or [^set]
InClass(c, cls) == IF cls.neg THEN c \notin cls.set ELSE c \in cls.set

\* Match of a literal at position i: the position after it, or 0 on failure
MatchLit(s, i, lit) ==
    IF i = 0 THEN 0
    ELSE IF i + Len(lit) - 1 <= Len(s) /\ SubSeq(s, i, i + Len(lit) - 1) = lit
         THEN i + Len(lit)
         ELSE 0

\* Greedy run cls*: the position after the longest run of cls from i
RECURSIVE RunEnd(_, _, _)
RunEnd(s, i, cls) ==
    IF i <= Len(s) /\ InClass(s[i], cls) THEN RunEnd(s, i + 1, cls) ELSE i

\* cls+ : at least one character, or 0 on failure
MatchPlus(s, i, cls) ==
    IF i = 0 THEN 0
    ELSE LET j == RunEnd(s, i, cls) IN IF j > i THEN j ELSE 0

\* c? : an optional character (greedy)
MatchOpt(s, i, c) ==
    IF i = 0 THEN 0
    ELSE IF i <= Len(s) /\ s[i] = c THEN i + 1 ELSE i

\* str.strip()
RECURSIVE LStrip(_)
LStrip(s) == IF s # <<>> /\ Head(s) \in Whitespace THEN LStrip(Tail(s)) ELSE s

RECURSIVE RStrip(_)
RStrip(s) ==
    IF s # <<>> /\ s[Len(s)] \in Whitespace THEN RStrip(SubSeq(s, 1, Len(s) - 1)) ELSE s

str_strip(s) == RStrip(LStrip(s))

\* int(digits)
RECURSIVE int(_)
int(ds) ==
    IF ds = <<>> THEN 0 ELSE 10 * int(SubSeq(ds, 1, Len(ds) - 1)) + DigitVal(ds[Len(ds)])

\* chr(n) for the byte values a percent escape of the modelled inputs can name
AsciiChr == [n \in {0, 2, 32, 34, 37, 47} |->
    CASE n = 0 -> "\\x00" [] n = 2 -> "\\x02" [] n = 32 -> " "
      [] n = 34 -> "\"" [] n = 37 -> "%" [] n = 47 -> "/"]

\* urllib.parse.unquote: %XX with two hex digits is the byte XX, any other
\* '%' is kept as it is
RECURSIVE unquote(_)
unquote(s) ==
    IF s = <<>> THEN <<>>
    ELSE IF Head(s) = "%" /\ Len(s) >= 3 /\ s[2] \in HexDigits /\ s[3] \in HexDigits
         THEN <<AsciiChr[16 * HexVal(s[2]) + HexVal(s[3])]>> \o unquote(From(s, 4))
         ELSE <<Head(s)>> \o unquote(Tail(s))

----------------------------------------------------------------------------
(* parse_url *)

Http == <<"h","t","t","p">>
SchemeSep == <<":","/","/">>
DevAzureCom == <<"d","e","v",".","a","z","u","r","e",".","c","o","m">>
Workitems == <<"_","w","o","r","k","i","t","e","m","s">>
Edit == <<"e","d","i","t">>
View == <<"v","i","e","w">>
Slash == <<"/">>

NotSlash == [neg |-> TRUE, set |-> {"/"}]
DigitClass == [neg |-> FALSE, set |-> Digits]

NoMatch == [ok |-> FALSE]

\* The host of the pattern: dev\.azure\.com, each dot escaped. With dot_any
\* the dots are unescaped and stand for any character
RECURSIVE MatchHost(_, _, _, _)
MatchHost(s, i, k, dot_any) ==
    IF i = 0 THEN 0
    ELSE IF k > Len(DevAzureCom) THEN i
    ELSE IF i <= Len(s) /\ (s[i] = DevAzureCom[k] \/ (dot_any /\ DevAzureCom[k] = "."))
         THEN MatchHost(s, i + 1, k + 1, dot_any)
         ELSE 0

\* The pattern of parse_url matched at the start of s: its groups. With
\* anchored the match must also end where s ends
url_match_core(s, anchored, dot_any) ==
    LET a == MatchOpt(s, MatchLit(s, 1, Http), "s")
        b == MatchLit(s, MatchHost(s, MatchLit(s, a, SchemeSep), 1, dot_any), Slash)
        c == MatchPlus(s, b, NotSlash)
        d == MatchLit(s, c, Slash)
        e == MatchPlus(s, d, NotSlash)
        f == MatchLit(s, MatchLit(s, MatchLit(s, e, Slash), Workitems), Slash)
        g == IF MatchLit(s, f, Edit) # 0 THEN MatchLit(s, f, Edit) ELSE MatchLit(s, f, View)
        h == MatchLit(s, g, Slash)
        k == MatchPlus(s, h, DigitClass)
    IN IF k = 0 \/ (anchored /\ k # Len(s) + 1) THEN NoMatch
       ELSE [ok |-> TRUE,
             g1 |-> SubSeq(s, b, c - 1),
             g2 |-> SubSeq(s, d, e - 1),
             g3 |-> SubSeq(s, h, k - 1)]

\* re.fullmatch in place of re.match
url_fullmatch(s) == url_match_core(s, TRUE, FALSE)

\* the pattern with its dots left unescaped
url_match_unescaped_dots(s) == url_match_core(s, FALSE, TRUE)

\* re.match(r'https?://dev\.azure\.com/([^/]+)/([^/]+)/_workitems/(?:edit|view)/(\d+)', s):
\* the groups of the match, anchored at the start of s and not at its end
url_match(s) == url_match_core(s, FALSE, FALSE)

\* parse_url(url): the components, or NoMatch for the ValueError it raises
parse_url(url) ==
    LET match == url_match(str_strip(url))
    IN IF ~match.ok THEN NoMatch
       ELSE [ok |-> TRUE,
             organization |-> match.g1,
             project |-> unquote(match.g2),
             work_item_id |-> int(match.g3)]

----------------------------------------------------------------------------
(* extract_figma_url *)

FigmaCom == <<"f","i","g","m","a",".","c","o","m">>
Www == <<"w","w","w",".">>
File == <<"f","i","l","e">>
Design == <<"d","e","s","i","g","n">>
Proto == <<"p","r","o","t","o">>

Letters ==
    {"a","b","c","d","e","f","g","h","i","j","k","l","m",
     "n","o","p","q","r","s","t","u","v","w","x","y","z",
     "A","B","C","D","E","F","G","H","I","J","K","L","M",
     "N","O","P","Q","R","S","T","U","V","W","X","Y","Z"}

\* [a-zA-Z0-9\-_]
FigmaIdClass == [neg |-> FALSE, set |-> Letters \cup Digits \cup {"-", "_"}]

\* [^\s"'<>)\}\]]
FigmaPathClass == [neg |-> TRUE, set |-> Whitespace \cup {"\"", "'", "<", ">", ")", "}", "]"}]

FirstOf(a, b, c) == IF a # 0 THEN a ELSE IF b # 0 THEN b ELSE c

\* The pattern of extract_figma_url matched at position i: the position after
\* the match, or 0
figma_match_at(s, i) ==
    LET a == MatchLit(s, MatchOpt(s, MatchLit(s, i, Http), "s"), SchemeSep)
        w == IF MatchLit(s, a, Www) # 0 THEN MatchLit(s, a, Www) ELSE a
        b == MatchLit(s, MatchLit(s, w, FigmaCom), Slash)
        k == FirstOf(MatchLit(s, b, File), MatchLit(s, b, Design), MatchLit(s, b, Proto))
        d == MatchPlus(s, MatchLit(s, k, Slash), FigmaIdClass)
    IN IF d = 0 THEN 0
       ELSE IF MatchLit(s, d, Slash) # 0 THEN RunEnd(s, d + 1, FigmaPathClass) ELSE d

None == [t |-> "null"]

\* re.search: the leftmost position at which the pattern matches
RECURSIVE figma_search(_, _)
figma_search(s, i) ==
    IF i > Len(s) THEN None
    ELSE IF figma_match_at(s, i) # 0
         THEN [t |-> "str", s |-> SubSeq(s, i, figma_match_at(s, i) - 1)]
         ELSE figma_search(s, i + 1)

\* extract_figma_url(text), text a str
extract_figma_url(text) == IF text = <<>> THEN None ELSE figma_search(text, 1)

----------------------------------------------------------------------------
(* strip_html *)

NotGt == [neg |-> TRUE, set |-> {">"}]

\* [^<>], the class of a pattern that lets no '<' inside a tag
NotAngle == [neg |-> TRUE, set |-> {"<", ">"}]

\* The end of a match of <cls+> at position i (the position of its '>'), or 0
tag_end(s, i, cls) ==
    IF s[i] # "<" THEN 0
    ELSE LET j == RunEnd(s, i + 1, cls)
         IN IF j > i + 1 /\ j <= Len(s) /\ s[j] = ">" THEN j ELSE 0

\* re.sub(r'<cls+>', ' ', s): every match, left to right, becomes one space
RECURSIVE sub_tags(_, _, _)
sub_tags(s, i, cls) ==
    IF i > Len(s) THEN <<>>
    ELSE IF tag_end(s, i, cls) # 0
         THEN <<" ">> \o sub_tags(s, tag_end(s, i, cls) + 1, cls)
         ELSE <<s[i]>> \o sub_tags(s, i + 1, cls)

\* The names of html.entities.html5 that a reference of the modelled texts can
\* name or have as a prefix (letters l, t, g, a, m, p after '&'), with their
\* replacement
Html5Names ==
    { <<"l","t">>, <<"l","t",";">>, <<"g","t">>, <<"g","t",";">>,
      <<"a","m","p">>, <<"a","m","p",";">>, <<"l","l",";">> }

html5(name) ==
    CASE name \in {<<"l","t">>, <<"l","t",";">>} -> "<"
      [] name \in {<<"g","t">>, <<"g","t",";">>} -> ">"
      [] name \in {<<"a","m","p">>, <<"a","m","p",";">>} -> "&"
      [] name = <<"l","l",";">> -> "\\u226a"

\* chr(num) for the numeric references of the modelled texts
NumChr == [n \in {38, 39, 60, 62} |->
    CASE n = 38 -> "&" [] n = 39 -> "'" [] n = 60 -> "<" [] n = 62 -> ">"]

\* [^\t\n\f <&#;]
NameClass == [neg |-> TRUE, set |-> {"\t", "\n", "\f", " ", "<", "&", "#", ";"}]

Min(a, b) == IF a < b THEN a ELSE b

\* _charref matched at the '&' at position i: the position after the match,
\* or 0. _charref = &(#[0-9]+;?|#[xX][0-9a-fA-F]+;?|[^\t\n\f <&#;]{1,32};?);
\* the hexadecimal alternative needs "#x", which no modelled text holds
charref_end(s, i) ==
    LET dec == MatchPlus(s, MatchLit(s, i + 1, <<"#">>), DigitClass)
        nam == LET j == Min(RunEnd(s, i + 1, NameClass), i + 33)
               IN  IF j > i + 1 THEN j ELSE 0
    IN IF s[i] # "&" THEN 0
       ELSE IF dec # 0 THEN MatchOpt(s, dec, ";")
       ELSE IF nam # 0 THEN MatchOpt(s, nam, ";")
       ELSE 0

\* The longest proper prefix s[:x], len(s)-1 >= x >= 2, that is an html5 name
RECURSIVE html5_prefix(_, _)
html5_prefix(name, x) ==
    IF x < 2 THEN 0
    ELSE IF SubSeq(name, 1, x) \in Html5Names THEN x ELSE html5_prefix(name, x - 1)

\* _replace_charref(s), s the text after the '&'
replace_charref(name) ==
    IF Head(name) = "#"
    THEN <<NumChr[int(SelectSeq(name, LAMBDA c : c \in Digits))]>>
    ELSE IF name \in Html5Names THEN <<html5(name)>>
    ELSE LET x == html5_prefix(name, Len(name) - 1)
         IN IF x # 0 THEN <<html5(SubSeq(name, 1, x))>> \o From(name, x + 1)
            ELSE <<"&">> \o name

\* html.unescape(s): _charref.sub(_replace_charref, s)
RECURSIVE unescape(_, _)
unescape(s, i) ==
    IF i > Len(s) THEN <<>>
    ELSE IF charref_end(s, i) # 0
         THEN replace_charref(SubSeq(s, i + 1, charref_end(s, i) - 1))
              \o unescape(s, charref_end(s, i))
         ELSE <<s[i]>> \o unescape(s, i + 1)

\* re.sub(r'\s+', ' ', s)
RECURSIVE collapse_ws(_, _)
collapse_ws(s, i) ==
    IF i > Len(s) THEN <<>>
    ELSE IF s[i] \in Whitespace
         THEN <<" ">> \o collapse_ws(s, RunEnd(s, i, [neg |-> FALSE, set |-> Whitespace]))
         ELSE <<s[i]>> \o collapse_ws(s, i + 1)

\* re.sub(r'<[^<>]+>', ' ', html_content)
strip_tags_no_lt_inside(s) == sub_tags(s, 1, NotAngle)

\* re.sub(r'<[^>]+>', ' ', html_content)
strip_tags(s) == sub_tags(s, 1, NotGt)

\* strip_html(html_content), html_content a str
strip_html(html_content) ==
    IF html_content = <<>> THEN <<>>
    ELSE str_strip(collapse_ws(unescape(strip_tags(html_content), 1), 1))

----------------------------------------------------------------------------
(* Direct calls of the pure functions, on every input of a bounded set *)

NoExit == -1
NoExc == [cls |-> "none", msg |-> [kind |-> "none"]]

\* The run of main has not started: the state a direct call leaves untouched
MainIdle ==
    /\ pc = "idle"
    /\ argv = <<>>
    /\ environ = [set |-> FALSE]
    /\ stdout = <<>>
    /\ stderr = <<>>
    /\ exit_status = NoExit
    /\ pat_reads = 0
    /\ parse_calls = 0
    /\ requests = 0
    /\ components = NoMatch
    /\ data = None
    /\ ticket = None
    /\ req = None
    /\ exc = NoExc

MaxTextLen == 6
MaxIdDigits == 2

SeqsUpTo(alphabet, n) == UNION {[1..k -> alphabet] : k \in 0..n}

\* Texts given to strip_html: markup delimiters, an entity's characters,
\* letters and a space
StripAlphabet == {"<", ">", "&", "l", "t", ";", " "}
StripInputs == SeqsUpTo(StripAlphabet, MaxTextLen)

StripInit ==
    /\ MainIdle
    /\ h_pc = "call"
    /\ h_in \in StripInputs
    /\ h_out1 = <<>>
    /\ h_out2 = <<>>

\* description = strip_html(raw_description)
StripOnce ==
    /\ h_pc = "call"
    /\ h_out1' = strip_html(h_in)
    /\ h_pc' = "once"
    /\ UNCHANGED <<h_in, h_out2, mainVars>>

\* strip_html applied to its own result
StripTwice ==
    /\ h_pc = "once"
    /\ h_out2' = strip_html(h_out1)
    /\ h_pc' = "twice"
    /\ UNCHANGED <<h_in, h_out1, mainVars>>

StripNext == StripOnce \/ StripTwice

SpecStrip == StripInit /\ [][StripNext]_vars

\* URLs given to parse_url: every concatenation of one choice per part, the
\* choices holding the documented form and its near misses
Ftp == <<"f","t","p">>
DevXazureCom == <<"d","e","v","X","a","z","u","r","e",".","c","o","m">>
Boards == <<"_","b","o","a","r","d","s">>
New == <<"n","e","w">>

UrlLeads == {<<>>, <<" ">>}
UrlSchemes == {Http, Http \o <<"s">>, Ftp}
UrlHosts == {DevAzureCom, DevXazureCom}
UrlOrgs == {<<"o","g">>, <<>>}
UrlProjects == {<<"p">>, <<>>, <<"p","%","2","0","q">>, <<"%","2","F","p","%">>}
UrlSegments == {Workitems, Boards}
UrlKinds == {Edit, View, New}
UrlDigitStrings == SeqsUpTo({"0", "7"}, MaxIdDigits) \ {<<>>}
UrlIds == UrlDigitStrings \cup {<<>>, <<"x","7">>}
UrlTails == {<<>>, <<"x">>, <<"/","x">>, <<"\n">>, <<"7">>}

MakeUrl(sch, host, org, proj, seg, kind, id) ==
    sch \o SchemeSep \o host \o Slash \o org \o Slash \o proj \o Slash
        \o seg \o Slash \o kind \o Slash \o id

UrlInputs ==
    { lead \o MakeUrl(sch, host, org, proj, seg, kind, id) \o tail :
        lead \in UrlLeads, sch \in UrlSchemes, host \in UrlHosts, org \in UrlOrgs,
        proj \in UrlProjects, seg \in UrlSegments, kind \in UrlKinds,
        id \in UrlIds, tail \in UrlTails }

ParseInit ==
    /\ MainIdle
    /\ h_pc = "call"
    /\ h_in \in UrlInputs
    /\ h_out1 = NoMatch
    /\ h_out2 = <<>>

\* components = parse_url(url)
ParseCall ==
    /\ h_pc = "call"
    /\ h_out1' = parse_url(h_in)
    /\ h_pc' = "parsed"
    /\ UNCHANGED <<h_in, h_out2, mainVars>>

ParseNext == ParseCall

SpecParse == ParseInit /\ [][ParseNext]_vars

----------------------------------------------------------------------------
(* JSON values and the Python operations on them *)

JStr(s) == [t |-> "str", s |-> s]
JNum(n) == [t |-> "num", n |-> n]
JBool(b) == [t |-> "bool", b |-> b]
JList(xs) == [t |-> "list", xs |-> xs]
JDict(m) == [t |-> "dict", m |-> m]

EmptyDict == JDict([k \in {} |-> None])

\* A dict with one more key
Put(d, k, v) == JDict([x \in DOMAIN d.m \cup {k} |-> IF x = k THEN v ELSE d.m[x]])

\* d.get(k, default), d a dict
dict_get(d, k, default) == IF k \in DOMAIN d.m THEN d.m[k] ELSE default

\* `v is None` in place of `not v`
is_none(v) == v.t = "null"

\* not v
falsy(v) ==
    CASE v.t = "null" -> TRUE
      [] v.t = "str" -> v.s = <<>>
      [] v.t = "num" -> v.n = 0
      [] v.t = "bool" -> ~v.b
      [] v.t = "list" -> v.xs = <<>>
      [] v.t = "dict" -> DOMAIN v.m = {}

----------------------------------------------------------------------------
(* Exceptions *)

Raise(cls, msg) == [cls |-> cls, msg |-> msg]

\* The classes an exception class is an instance of
Bases(cls) ==
    CASE cls = "ValueError" -> {"ValueError", "Exception"}
      [] cls = "JSONDecodeError" -> {"JSONDecodeError", "ValueError", "Exception"}
      [] cls = "UnicodeDecodeError" -> {"UnicodeDecodeError", "ValueError", "Exception"}
      [] cls = "RuntimeError" -> {"RuntimeError", "Exception"}
      [] cls = "HTTPError" -> {"HTTPError", "URLError", "OSError", "Exception"}
      [] cls = "URLError" -> {"URLError", "OSError", "Exception"}
      [] cls = "ConnectionResetError" -> {"ConnectionResetError", "OSError", "Exception"}
      [] cls = "KeyError" -> {"KeyError", "LookupError", "Exception"}
      [] cls = "AttributeError" -> {"AttributeError", "Exception"}
      [] cls = "TypeError" -> {"TypeError", "Exception"}

isinstance(e, cls) == cls \in Bases(e.cls)

----------------------------------------------------------------------------
(* fetch_work_item *)

\* The characters urllib.parse.quote leaves as they are (safe='/')
QuoteSafe == Letters \cup Digits \cup {"_", ".", "-", "~", "/"}

\* %XX for the other characters a project of the modelled URLs can hold
PercentEncoded(c) ==
    CASE c = " " -> <<"%","2","0">>
      [] c = "%" -> <<"%","2","5">>

\* urllib.parse.quote(project)
RECURSIVE quote(_)
quote(s) ==
    IF s = <<>> THEN <<>>
    ELSE (IF Head(s) \in QuoteSafe THEN <<Head(s)>> ELSE PercentEncoded(Head(s)))
         \o quote(Tail(s))

\* The Request of fetch_work_item: the API address and the Basic credentials
build_request(c, pat) ==
    [organization |-> c.organization,
     encoded_project |-> quote(c.project),
     work_item_id |-> c.work_item_id,
     api_version |-> <<"7",".","0">>,
     authorization |-> [basic_b64 |-> <<":">> \o pat.s]]

\* A client that requests again after a network error
except_clauses_retry(e, work_item_id) ==
    IF isinstance(e, "HTTPError")
    THEN [pc |-> "raised",
          exc |-> Raise("RuntimeError",
                        [kind |-> "http", code |-> e.msg.code, work_item_id |-> work_item_id])]
    ELSE IF isinstance(e, "URLError")
    THEN [pc |-> "urlopen", exc |-> NoExc]
    ELSE [pc |-> "raised", exc |-> e]

\* The except clauses of fetch_work_item applied to an exception raised in its
\* try block: where the run goes next and with which exception
except_clauses(e, work_item_id) ==
    IF isinstance(e, "HTTPError")
    THEN [pc |-> "raised",
          exc |-> Raise("RuntimeError",
                        [kind |-> "http", code |-> e.msg.code, work_item_id |-> work_item_id])]
    ELSE IF isinstance(e, "URLError")
    THEN [pc |-> "raised", exc |-> Raise("RuntimeError", [kind |-> "network"])]
    ELSE [pc |-> "raised", exc |-> e]

PyError(cls) == [ok |-> FALSE, exc |-> Raise(cls, [kind |-> "python"])]

\* assigned_to of fetch_work_item, from fields.get('System.AssignedTo')
resolve_assigned_to(assigned_to) ==
    IF assigned_to.t = "dict" THEN dict_get(assigned_to, "displayName", None)
    ELSE assigned_to

\* The body of fetch_work_item after the response is decoded: the ticket, or
\* the exception a step of it raises
build_ticket(d) ==
    LET fields == dict_get(d, "fields", EmptyDict)
        raw0 == dict_get(fields, "System.Description", None)
        raw_description == IF falsy(raw0) THEN JStr(<<>>) ELSE raw0
        links == dict_get(d, "_links", EmptyDict)
        html == dict_get(links, "html", EmptyDict)
    IN IF d.t # "dict" THEN PyError("AttributeError")
       ELSE IF fields.t # "dict" THEN PyError("AttributeError")
       ELSE IF raw_description.t # "str" THEN PyError("TypeError")
       ELSE IF "id" \notin DOMAIN d.m THEN PyError("KeyError")
       ELSE IF links.t # "dict" THEN PyError("AttributeError")
       ELSE IF html.t # "dict" THEN PyError("AttributeError")
       ELSE [ok |-> TRUE,
             ticket |->
               [doc |-> "ticket",
                id |-> d.m["id"],
                title |-> dict_get(fields, "System.Title", JStr(<<>>)),
                description |-> JStr(strip_html(raw_description.s)),
                state |-> dict_get(fields, "System.State", JStr(<<>>)),
                type |-> dict_get(fields, "System.WorkItemType", JStr(<<>>)),
                assignedTo |-> resolve_assigned_to(dict_get(fields, "System.AssignedTo", None)),
                url |-> dict_get(html, "href", JStr(<<>>)),
                figmaUrl |-> extract_figma_url(raw_description.s)]]

----------------------------------------------------------------------------
(* The inputs of a run: command line, environment, and what the network
   answers *)

Token == <<"t","o","k">>

Environments == {[set |-> FALSE], [set |-> TRUE, val |-> <<>>], [set |-> TRUE, val |-> Token]}

\* os.environ.get('ADO_PAT')
environ_get(env) == IF env.set THEN JStr(env.val) ELSE None

Https == Http \o <<"s">>
Og == <<"o","g">>

UrlEdit == MakeUrl(Https, DevAzureCom, Og, <<"p">>, Workitems, Edit, <<"7">>)
UrlViewTail ==
    MakeUrl(Http, DevAzureCom, Og, <<"p","%","2","0","q">>, Workitems, View, <<"7","0">>)
        \o <<"?","x">>
UrlWrongHost == MakeUrl(Https, DevXazureCom, Og, <<"p">>, Workitems, Edit, <<"7">>)
UrlNoId == MakeUrl(Https, DevAzureCom, Og, <<"p">>, Workitems, Edit, <<>>)
UrlWrongSegment == MakeUrl(Https, DevAzureCom, Og, <<"p">>, Boards, Edit, <<"7">>)

\* URLs outside the pattern: wrong host, missing numeric id, wrong path segment
NonMatchingUrls == {UrlWrongHost, UrlNoId, UrlWrongSegment}

MainUrls == {UrlEdit, UrlViewTail} \cup NonMatchingUrls

\* What urlopen does: a 2xx response, or the exception it raises
UrlopenOutcomes ==
    { [ok |-> TRUE] }
    \cup { [ok |-> FALSE, exc |-> Raise("HTTPError", [kind |-> "status", code |-> code])] :
             code \in {401, 404} }
    \cup { [ok |-> FALSE, exc |-> Raise("URLError", [kind |-> "reason"])] }

Jane == <<"J","a","n","e">>

\* Shapes of fields['System.AssignedTo']; Absent is the key not being there
Absent == [t |-> "absent"]
AssignedToShapes ==
    { Absent, None, JStr(Jane), JNum(42), JBool(TRUE), JList(<<JStr(Jane)>>),
      EmptyDict,
      Put(EmptyDict, "displayName", JStr(Jane)),
      Put(EmptyDict, "uniqueName", JStr(Jane)),
      Put(EmptyDict, "displayName", JNum(42)) }

DescriptionShapes ==
    { Absent, JNum(5),
      JStr(<<"<","p",">","l"," ","&","l","t",";"," ","t","<","/","p",">">>),
      JStr(<<"<","a",">">> \o Http \o SchemeSep \o FigmaCom \o Slash \o File \o Slash
             \o <<"A","1","/","x","<","/","a",">">>) }

PutIf(d, k, v) == IF v = Absent THEN d ELSE Put(d, k, v)

Fields(assigned, description) ==
    PutIf(PutIf(Put(Put(EmptyDict, "System.Title", JStr(<<"T">>)),
                    "System.State", JStr(<<"N","e","w">>)),
                "System.AssignedTo", assigned),
          "System.Description", description)

Links == Put(EmptyDict, "html", Put(EmptyDict, "href", JStr(UrlEdit)))

WorkItem(assigned, description) ==
    Put(Put(Put(EmptyDict, "id", JNum(7)), "fields", Fields(assigned, description)),
        "_links", Links)

\* JSON documents a 2xx response can carry
JsonBodies ==
    { WorkItem(a, d) : a \in AssignedToShapes, d \in DescriptionShapes }
    \cup { EmptyDict,
           Put(EmptyDict, "fields", Fields(JStr(Jane), Absent)),
           Put(EmptyDict, "id", JNum(7)),
           Put(Put(EmptyDict, "id", JNum(7)), "fields", None),
           Put(Put(EmptyDict, "id", JNum(7)), "_links", JStr(UrlEdit)),
           JList(<<>>), JStr(<<"o","k">>), JNum(7), None }

\* What response.read().decode() and json.loads do with a 2xx response: the
\* decoded document, or the exception one of the three raises
ReadOutcomes ==
    { [ok |-> TRUE, data |-> b] : b \in JsonBodies }
    \cup { [ok |-> FALSE, exc |-> Raise("ConnectionResetError", [kind |-> "python"])],
           [ok |-> FALSE, exc |-> Raise("UnicodeDecodeError", [kind |-> "python"])],
           [ok |-> FALSE, exc |-> Raise("JSONDecodeError", [kind |-> "python"])] }

----------------------------------------------------------------------------
(* main *)

\* The four lines of the usage message (the dash of the last one in ASCII)
UsageLines ==
    << "Usage: fetch_ticket.py <azure_devops_url>",
       "",
       "Required environment variable:",
       "  ADO_PAT  - Azure DevOps Personal Access Token" >>

TracebackLine(e) == "Traceback (most recent call last): " \o e.cls

ErrorDoc(msg) == [doc |-> "error", error |-> msg]

MissingPatMessage == [kind |-> "ADO_PAT environment variable is not set"]

InvalidUrlMessage(url) == [kind |-> "Invalid Azure DevOps URL", url |-> url]

Init ==
    /\ pc = "argv"
    /\ argv \in {<<>>} \cup {<<u>> : u \in MainUrls}
    /\ environ \in Environments
    /\ stdout = <<>>
    /\ stderr = <<>>
    /\ exit_status = NoExit
    /\ pat_reads = 0
    /\ parse_calls = 0
    /\ requests = 0
    /\ components = NoMatch
    /\ data = None
    /\ ticket = None
    /\ req = None
    /\ exc = NoExc
    /\ h_pc = "idle"
    /\ h_in = <<>>
    /\ h_out1 = <<>>
    /\ h_out2 = <<>>

\* if len(sys.argv) < 2: usage to stderr, sys.exit(1)
main_argv ==
    /\ pc = "argv"
    /\ IF Len(argv) + 1 < 2
       THEN /\ stderr' = stderr \o UsageLines
            /\ exit_status' = 1
            /\ pc' = "exited"
       ELSE /\ pc' = "pat"
            /\ UNCHANGED <<stderr, exit_status>>
    /\ UNCHANGED <<argv, environ, stdout, pat_reads, parse_calls, requests, components,
                   data, ticket, req, exc, harnessVars>>

\* pat = os.environ.get('ADO_PAT'); if not pat: error object to stdout, sys.exit(1)
main_pat ==
    /\ pc = "pat"
    /\ pat_reads' = pat_reads + 1
    /\ IF falsy(environ_get(environ))
       THEN /\ stdout' = Append(stdout, ErrorDoc(MissingPatMessage))
            /\ exit_status' = 1
            /\ pc' = "exited"
       ELSE /\ pc' = "parse"
            /\ UNCHANGED <<stdout, exit_status>>
    /\ UNCHANGED <<argv, environ, stderr, parse_calls, requests, components,
                   data, ticket, req, exc, harnessVars>>

\* components = parse_url(url), which raises ValueError on no match
main_parse_url ==
    /\ pc = "parse"
    /\ parse_calls' = parse_calls + 1
    /\ LET c == parse_url(argv[1])
       IN IF c.ok
          THEN /\ components' = c
               /\ pc' = "urlopen"
               /\ exc' = exc
          ELSE /\ exc' = Raise("ValueError", InvalidUrlMessage(argv[1]))
               /\ pc' = "raised"
               /\ components' = components
    /\ UNCHANGED <<argv, environ, stdout, stderr, exit_status, pat_reads, requests,
                   data, ticket, req, harnessVars>>

\* fetch_work_item up to urllib.request.urlopen(req)
fetch_urlopen ==
    /\ pc = "urlopen"
    /\ req' = build_request(components, environ_get(environ))
    /\ requests' = requests + 1
    /\ \E o \in UrlopenOutcomes :
         IF o.ok
         THEN /\ pc' = "read"
              /\ exc' = exc
         ELSE LET next == except_clauses(o.exc, components.work_item_id)
              IN /\ pc' = next.pc
                 /\ exc' = next.exc
    /\ UNCHANGED <<argv, environ, stdout, stderr, exit_status, pat_reads, parse_calls,
                   components, data, ticket, harnessVars>>

\* data = json.loads(response.read().decode()), inside the same try block
fetch_read ==
    /\ pc = "read"
    /\ \E o \in ReadOutcomes :
         IF o.ok
         THEN /\ data' = o.data
              /\ pc' = "build"
              /\ exc' = exc
         ELSE LET next == except_clauses(o.exc, components.work_item_id)
              IN /\ pc' = next.pc
                 /\ exc' = next.exc
                 /\ data' = data
    /\ UNCHANGED <<argv, environ, stdout, stderr, exit_status, pat_reads, parse_calls,
                   requests, components, ticket, req, harnessVars>>

\* The rest of fetch_work_item: the ticket it returns or the exception it raises
fetch_build ==
    /\ pc = "build"
    /\ LET r == build_ticket(data)
       IN IF r.ok
          THEN /\ ticket' = r.ticket
               /\ pc' = "print"
               /\ exc' = exc
          ELSE /\ exc' = r.exc
               /\ pc' = "raised"
               /\ ticket' = ticket
    /\ UNCHANGED <<argv, environ, stdout, stderr, exit_status, pat_reads, parse_calls,
                   requests, components, data, req, harnessVars>>

\* print(json.dumps(ticket, indent=2)); main returns and the process ends with 0
main_print ==
    /\ pc = "print"
    /\ stdout' = Append(stdout, ticket)
    /\ exit_status' = 0
    /\ pc' = "exited"
    /\ UNCHANGED <<argv, environ, stderr, pat_reads, parse_calls, requests, components,
                   data, ticket, req, exc, harnessVars>>

\* except (ValueError, RuntimeError)
caught_by_main(e) == isinstance(e, "ValueError") \/ isinstance(e, "RuntimeError")

\* A handler that reports the error on standard error
except_body_to_stderr(out, err, e) ==
    [stdout |-> out, stderr |-> Append(err, "error"), exit_status |-> 1]

\* A handler that lacks its sys.exit(1)
except_body_no_exit(out, err, e) ==
    [stdout |-> Append(out, ErrorDoc(e.msg)), stderr |-> err, exit_status |-> 0]

\* print(json.dumps({'error': str(e)})); sys.exit(1)
except_body(out, err, e) ==
    [stdout |-> Append(out, ErrorDoc(e.msg)), stderr |-> err, exit_status |-> 1]

\* The except clause of main, for the exceptions it names
main_except ==
    /\ pc = "raised"
    /\ caught_by_main(exc)
    /\ LET r == except_body(stdout, stderr, exc)
       IN /\ stdout' = r.stdout
          /\ stderr' = r.stderr
          /\ exit_status' = r.exit_status
    /\ pc' = "exited"
    /\ UNCHANGED <<argv, environ, pat_reads, parse_calls, requests, components,
                   data, ticket, req, exc, harnessVars>>

\* Any other exception leaves main: the interpreter prints the traceback on
\* standard error and the process ends with status 1
uncaught ==
    /\ pc = "raised"
    /\ ~caught_by_main(exc)
    /\ stderr' = Append(stderr, TracebackLine(exc))
    /\ exit_status' = 1
    /\ pc' = "exited"
    /\ UNCHANGED <<argv, environ, stdout, pat_reads, parse_calls, requests, components,
                   data, ticket, req, exc, harnessVars>>

Next ==
    \/ main_argv
    \/ main_pat
    \/ main_parse_url
    \/ fetch_urlopen
    \/ fetch_read
    \/ fetch_build
    \/ main_print
    \/ main_except
    \/ uncaught

Spec == Init /\ [][Next]_vars

----------------------------------------------------------------------------
(* Properties of a run of main (specification Spec) *)

Exited == pc = "exited"
ArgPresent == argv # <<>>
CredentialSet == environ.set /\ environ.val # <<>>

ExceptionClasses ==
    {"ValueError", "JSONDecodeError", "UnicodeDecodeError", "RuntimeError", "HTTPError",
     "URLError", "ConnectionResetError", "KeyError", "AttributeError", "TypeError"}

IsTraceback(line) == \E c \in ExceptionClasses : line = TracebackLine([cls |-> c])
HasTraceback == \E i \in DOMAIN stderr : IsTraceback(stderr[i])

IsJsonDocument(d) == d.doc \in {"ticket", "error"}

\* C1, as stated: when the process has terminated, exactly one JSON document
\* (the success record or an error object) is on standard output, whatever
\* the argument, the credential, the URL and the fetch outcome were.
C1_ExactlyOneDocument ==
    Exited => Len(stdout) = 1 /\ IsJsonDocument(stdout[1])

\* C1, amended: standard output never holds two documents; a terminated run
\* holds exactly one (success record or error object) when the URL argument
\* was given and no exception left main, and none when the argument was
\* missing or an exception left main.
C1_OneDocumentUnlessUsageOrTraceback ==
    /\ Len(stdout) <= 1
    /\ \A i \in DOMAIN stdout : IsJsonDocument(stdout[i])
    /\ Exited => Len(stdout) = (IF ~ArgPresent \/ HasTraceback THEN 0 ELSE 1)

C1_Witness ==
    /\ Exited
    /\ ArgPresent
    /\ requests = 1
    /\ exc.cls = "RuntimeError"
    /\ Len(stdout) = 1
    /\ stdout[1].doc = "error"

\* C2: every failing run ends with a JSON error envelope on standard output
\* (or, with the argument missing, the usage message) and a non-zero exit
\* status, and no exception leaves main uncaught.
C2_EveryFailureEnveloped ==
    /\ ~HasTraceback
    /\ (Exited /\ exit_status # 0) =>
         \/ ~ArgPresent /\ stderr = UsageLines /\ stdout = <<>>
         \/ ArgPresent /\ Len(stdout) = 1 /\ stdout[1].doc = "error"

\* C3: an HTTP request is made only after the argument was found present, the
\* credential set and non-empty and the URL matched by parse_url; a run with
\* a URL of the wrong host, without numeric id or with the wrong path
\* segment never makes one.
C3_RequestOnlyAfterGates ==
    /\ (requests > 0 \/ pc \in {"urlopen", "read", "build", "print"}) =>
         /\ ArgPresent
         /\ CredentialSet
         /\ pat_reads = 1
         /\ parse_calls = 1
         /\ parse_url(argv[1]).ok
    /\ (ArgPresent /\ argv[1] \in NonMatchingUrls) => requests = 0
    /\ (~ArgPresent \/ ~CredentialSet) => requests = 0

C3_Witness ==
    /\ Exited
    /\ CredentialSet
    /\ ArgPresent
    /\ argv[1] = UrlWrongHost
    /\ parse_calls = 1
    /\ requests = 0

\* C4: at most one HTTP GET is issued per run: whenever the run is about to
\* call urlopen it has not called it before, so neither an HTTP error, nor a
\* network error, nor a successful response is followed by a second request.
C4_AtMostOneGet ==
    /\ requests <= 1
    /\ pc = "urlopen" => requests = 0
    /\ pc \in {"read", "build", "print"} => requests = 1

C4_Witness ==
    /\ Exited
    /\ requests = 1
    /\ exc.cls = "RuntimeError"
    /\ exc.msg.kind = "network"
    /\ exit_status = 1

\* C5: the exit status is 0 exactly when the success record was printed; it
\* is 1 when the argument or the credential is missing, the URL does not
\* parse or the fetch fails; status 0 never comes with an error object.
C5_ExitStatus ==
    /\ ~Exited => exit_status = NoExit
    /\ Exited =>
         /\ exit_status \in {0, 1}
         /\ exit_status = 0 <=> (\E i \in DOMAIN stdout : stdout[i].doc = "ticket")
         /\ exit_status = 0 => \A i \in DOMAIN stdout : stdout[i].doc # "error"
         /\ (~ArgPresent \/ ~CredentialSet \/ parse_calls = 0 \/ exc # NoExc)
              => exit_status = 1

C5_Witness ==
    /\ Exited
    /\ exit_status = 0
    /\ stdout = <<ticket>>
    /\ ticket.doc = "ticket"

\* C6: with the URL argument present nothing is ever written to standard
\* error; with it absent standard error holds the usage message only,
\* standard output holds nothing and the credential is not read.
C6_StderrOnlyUsage ==
    /\ ArgPresent => stderr = <<>>
    /\ (Exited /\ ~ArgPresent) =>
         stderr = UsageLines /\ stdout = <<>> /\ pat_reads = 0

\* The System.AssignedTo field of the decoded response, Absent without it
AssignedToField ==
    LET fields == dict_get(data, "fields", EmptyDict)
    IN dict_get(fields, "System.AssignedTo", Absent)

\* C8: assignedTo of the success record is the display name of an object
\* with displayName, the string of a plain string, and absent/null for an
\* absent field and for every other shape: always a string or null.
C8_AssignedToStringOrAbsent ==
    ticket # None =>
        /\ ticket.assignedTo.t \in {"str", "null"}
        /\ LET a == AssignedToField
           IN ticket.assignedTo =
                IF a.t = "dict" /\ "displayName" \in DOMAIN a.m /\ a.m["displayName"].t = "str"
                THEN a.m["displayName"]
                ELSE IF a.t = "str" THEN a ELSE None

\* C10: the checks run in the order argument, credential, URL: with the
\* argument present and the credential unset or empty, parse_url is never
\* called and the run ends with the missing-credential error object alone
\* and status 1, whatever the URL; with the argument missing, only the usage
\* message is produced and the credential is not read.
C10_CheckOrder ==
    /\ pat_reads > 0 => ArgPresent
    /\ parse_calls > 0 => pat_reads > 0
    /\ (ArgPresent /\ ~CredentialSet) => parse_calls = 0 /\ requests = 0
    /\ (Exited /\ ArgPresent /\ ~CredentialSet) =>
         /\ stdout = <<ErrorDoc(MissingPatMessage)>>
         /\ stderr = <<>>
         /\ exit_status = 1
    /\ (Exited /\ ~ArgPresent) =>
         /\ stdout = <<>>
         /\ stderr = UsageLines
         /\ pat_reads = 0
         /\ parse_calls = 0
         /\ exit_status = 1

C10_Witness ==
    /\ Exited
    /\ ArgPresent
    /\ argv[1] \in NonMatchingUrls
    /\ environ = [set |-> TRUE, val |-> <<>>]
    /\ stdout = <<ErrorDoc(MissingPatMessage)>>
    /\ exit_status = 1

----------------------------------------------------------------------------
(* Properties of strip_html (specification SpecStrip) *)

\* C7, as stated: strip_html(strip_html(t)) = strip_html(t) for every text t.
C7_Idempotent ==
    h_pc = "twice" => h_out2 = h_out1

\* C7, amended: strip_html(strip_html(t)) = strip_html(t) for every text t
\* that holds no '&', that is, no character reference.
C7_IdempotentWithoutReferences ==
    (h_pc = "twice" /\ \A i \in DOMAIN h_in : h_in[i] # "&") => h_out2 = h_out1

C7_Witness ==
    /\ h_pc = "twice"
    /\ h_in = <<"<", "l", ">", " ", "t">>
    /\ h_out1 = <<"t">>
    /\ h_out2 = <<"t">>

----------------------------------------------------------------------------
(* Properties of parse_url (specification SpecParse) *)

IsPrefix(p, s) == Len(p) <= Len(s) /\ SubSeq(s, 1, Len(p)) = p

\* The documented form, part by part: http or https, the host dev.azure.com,
\* non-empty org and project without a slash, edit or view, decimal digits
FormOrgs == {o \in UrlOrgs : o # <<>> /\ \A i \in DOMAIN o : o[i] # "/"}
FormProjects == {q \in UrlProjects : q # <<>> /\ \A i \in DOMAIN q : q[i] # "/"}
FormIds == SeqsUpTo({"0", "7"}, MaxIdDigits + 1) \ {<<>>}

UrlForms ==
    { [url |-> MakeUrl(sch, DevAzureCom, o, q, Workitems, k, d),
       org |-> o, proj |-> q, id |-> d] :
        sch \in {Http, Https}, o \in FormOrgs, q \in FormProjects,
        k \in {Edit, View}, d \in FormIds }

\* The components of an input of the form f: org, decoded project, id as integer
FormResult(f) ==
    [ok |-> TRUE,
     organization |-> f.org,
     project |-> unquote(f.proj),
     work_item_id |-> int(f.id)]

\* C9, as stated: parse_url returns the components of exactly the inputs
\* that are of the documented form, and fails for every other input, one
\* with extra characters after the digits of the id included.
C9_AcceptsExactlyTheForm ==
    h_pc = "parsed" =>
        IF \E f \in UrlForms : f.url = h_in
        THEN \E f \in UrlForms : f.url = h_in /\ h_out1 = FormResult(f)
        ELSE h_out1 = NoMatch

\* The input with the whitespace around it removed begins with the form f,
\* and the digits of f are all the digits found there
BeginsWith(u, f) ==
    LET t == RStrip(LStrip(u))
    IN /\ IsPrefix(f.url, t)
       /\ Len(t) > Len(f.url) => t[Len(f.url) + 1] \notin Digits

\* C9, amended: parse_url returns the components of exactly the inputs
\* that, with the whitespace around them removed, begin with the documented
\* form (scheme http or https), the id being the longest run of digits
\* there and whatever follows it being ignored; it fails for every other
\* input.
C9_AcceptsEveryPrefixOfTheForm ==
    h_pc = "parsed" =>
        IF \E f \in UrlForms : BeginsWith(h_in, f)
        THEN \E f \in UrlForms : BeginsWith(h_in, f) /\ h_out1 = FormResult(f)
        ELSE h_out1 = NoMatch

C9_Witness ==
    /\ h_pc = "parsed"
    /\ h_in = MakeUrl(Https, DevAzureCom, Og, <<"p","%","2","0","q">>, Workitems, View,
                      <<"7","0">>) \o <<"/","x">>
    /\ h_out1 = [ok |-> TRUE,
                 organization |-> Og,
                 project |-> <<"p"," ","q">>,
                 work_item_id |-> 70]

====
